---- MODULE Spec2Model ----
(***************************************************************************)
(* Model of cryocon/cryocon.py: the command dispatcher CryoCon._ask with   *)
(* its communication-error cooldown, the batching accumulator              *)
(* CryoCon.Group, the _Property binding mechanism and the Channel / Loop / *)
(* CryoCon facades that use them.                                          *)
(*                                                                         *)
(* Wire text (commands, request lines, raw replies) is modelled as TLA+    *)
(* strings, so lengths, joins, splits and strips are computed on the       *)
(* actual characters.  Python values are tagged records: PyNone, PyStr,    *)
(* PyFloat, PyInt, PyBool; exceptions are records [t, cls, id].            *)
(***************************************************************************)
EXTENDS Integers, Sequences, FiniteSets, TLC

(***************************************************************************)
(* Bounds of the model.                                                    *)
(***************************************************************************)
\* time.time() at construction; any real clock is far beyond the retry period
StartTime == 3
\* number of clock ticks explored after StartTime
MaxTicks == 3
\* longest time one transport call may take (seconds)
MaxIoDelay == 1
\* most reads deferred in one batch session of Spec
MaxAppend == 1
\* most reads deferred in one batch session of SpecBatch
MaxBatchAppend == 14
\* the dispatches counted as refused since the latest transport error
MaxBlocked == 2

(***************************************************************************)
(* Module constants of cryocon.py.                                         *)
(***************************************************************************)
OUT_OF_RANGE == "_______"
OUT_OF_LIMIT == "......."
NA == "N/A"
NACK == "NACK"
RANGES == <<"HI", "MID", "LOW">>
comm_error_retry_period == 3
\* the literal 250 of Group.append
MaxLineLen == 250

(***************************************************************************)
(* Python values.                                                          *)
(***************************************************************************)
PyNone == [t |-> "none"]
PyStr(s) == [t |-> "str", s |-> s]
PyBool(b) == [t |-> "bool", b |-> b]
\* a float, held as the integer number of 1e-8 units (values stay below 21)
PyFloat(v) == [t |-> "float", v |-> v]
PyInt(v) == [t |-> "int", v |-> v]
PyExc(cls, id) == [t |-> "exc", cls |-> cls, id |-> id]

\* the exceptions the code raises itself
AttributeError == PyExc("AttributeError", "can't set attribute")
NackError == PyExc("CryoConError", "not acknowledged")
ManualModeError == PyExc("CryoConError", "Loop must be in manual mode")
ReadbackError == PyExc("CryoConError", "Written power differs")
IndexError == PyExc("IndexError", "Can only set range for loop 1")
RangeValueError == PyExc("ValueError", "Invalid loop range")
ParseValueError == PyExc("ValueError", "invalid literal")
JoinTypeError == PyExc("TypeError", "sequence item: expected str instance")
NoneArithTypeError == PyExc("TypeError", "unsupported operand type(s)")
NotReplyError == PyExc("AssertionError", "assert not reply")

(***************************************************************************)
(* Text helpers: str.endswith, str.strip, str.split, str.join, str.upper.  *)
(***************************************************************************)
CharAt(s, i) == SubSeq(s, i, i)

EndsWith(s, c) == Len(s) >= Len(c) /\ SubSeq(s, Len(s) - Len(c) + 1, Len(s)) = c

StartsWith(s, c) == Len(s) >= Len(c) /\ SubSeq(s, 1, Len(c)) = c

Whitespace == {" ", "\t", "\n", "\r"}

RECURSIVE LStrip(_)
LStrip(s) ==
    IF Len(s) > 0 /\ CharAt(s, 1) \in Whitespace
    THEN LStrip(SubSeq(s, 2, Len(s)))
    ELSE s

RECURSIVE RStrip(_)
RStrip(s) ==
    IF Len(s) > 0 /\ CharAt(s, Len(s)) \in Whitespace
    THEN RStrip(SubSeq(s, 1, Len(s) - 1))
    ELSE s

\* str.strip(): leading and trailing whitespace removed
Strip(s) == LStrip(RStrip(s))

\* index of the first occurrence of the one-character text c in s at or
\* after position i, or 0 when there is none
RECURSIVE FindFrom(_, _, _)
FindFrom(s, c, i) ==
    IF i > Len(s) THEN 0
    ELSE IF CharAt(s, i) = c THEN i
    ELSE FindFrom(s, c, i + 1)

\* str.split(c) for a one-character separator: always at least one piece
RECURSIVE Split(_, _)
SplitAt(s, c, k) ==
    IF k = 0 THEN <<s>>
    ELSE <<SubSeq(s, 1, k - 1)>> \o Split(SubSeq(s, k + 1, Len(s)), c)

Split(s, c) == SplitAt(s, c, FindFrom(s, c, 1))

\* c.join(parts) for a sequence of texts
RECURSIVE Join(_, _)
Join(parts, c) ==
    IF Len(parts) = 0 THEN ""
    ELSE IF Len(parts) = 1 THEN parts[1]
    ELSE parts[1] \o c \o Join(Tail(parts), c)

UpperChar(c) ==
    CASE c = "a" -> "A" [] c = "b" -> "B" [] c = "c" -> "C" [] c = "d" -> "D"
      [] c = "e" -> "E" [] c = "f" -> "F" [] c = "g" -> "G" [] c = "h" -> "H"
      [] c = "i" -> "I" [] c = "j" -> "J" [] c = "k" -> "K" [] c = "l" -> "L"
      [] c = "m" -> "M" [] c = "n" -> "N" [] c = "o" -> "O" [] c = "p" -> "P"
      [] c = "q" -> "Q" [] c = "r" -> "R" [] c = "s" -> "S" [] c = "t" -> "T"
      [] c = "u" -> "U" [] c = "v" -> "V" [] c = "w" -> "W" [] c = "x" -> "X"
      [] c = "y" -> "Y" [] c = "z" -> "Z" [] OTHER -> c

\* str.upper()
RECURSIVE Upper(_)
Upper(s) ==
    IF Len(s) = 0 THEN ""
    ELSE UpperChar(CharAt(s, 1)) \o Upper(SubSeq(s, 2, Len(s)))

(***************************************************************************)
(* Decoders (the ValueCodec functions used as fget).                       *)
(***************************************************************************)
DigitVal(c) ==
    CASE c = "0" -> 0 [] c = "1" -> 1 [] c = "2" -> 2 [] c = "3" -> 3
      [] c = "4" -> 4 [] c = "5" -> 5 [] c = "6" -> 6 [] c = "7" -> 7
      [] c = "8" -> 8 [] c = "9" -> 9 [] OTHER -> -1

RECURSIVE AllDigits(_)
AllDigits(s) ==
    \/ Len(s) = 0
    \/ DigitVal(CharAt(s, 1)) >= 0 /\ AllDigits(SubSeq(s, 2, Len(s)))

\* value of a text of decimal digits
RECURSIVE DigitsVal(_)
DigitsVal(s) ==
    IF Len(s) = 0 THEN 0
    ELSE 10 * DigitsVal(SubSeq(s, 1, Len(s) - 1)) + DigitVal(CharAt(s, Len(s)))

RECURSIVE Pow10(_)
Pow10(n) == IF n = 0 THEN 1 ELSE 10 * Pow10(n - 1)

\* a numeric text without its sign
Unsigned(s) ==
    IF StartsWith(s, "-") \/ StartsWith(s, "+") THEN SubSeq(s, 2, Len(s)) ELSE s

Signed(s, mag) == IF StartsWith(s, "-") THEN 0 - mag ELSE mag

\* int(text) for plain decimal texts with an optional sign; anything else is
\* a ValueError
ParseIntStripped(s) ==
    IF Len(Unsigned(s)) > 0 /\ AllDigits(Unsigned(s))
    THEN PyInt(Signed(s, DigitsVal(Unsigned(s))))
    ELSE ParseValueError

ParseInt(text) == ParseIntStripped(Strip(text))

\* the digits before and after the decimal point (at position dot, 0: none)
IntDigits(body, dot) == IF dot = 0 THEN body ELSE SubSeq(body, 1, dot - 1)

FracDigits(body, dot) == IF dot = 0 THEN "" ELSE SubSeq(body, dot + 1, Len(body))

\* float(text) for plain decimal texts "[sign]digits[.digits]" with at most
\* 8 decimals; anything else is a ValueError
ParseFloatParts(s, ip, fp) ==
    IF /\ Len(ip) + Len(fp) > 0
       /\ AllDigits(ip) /\ AllDigits(fp)
       /\ Len(fp) <= 8
    THEN PyFloat(Signed(s, DigitsVal(ip) * Pow10(8) + DigitsVal(fp) * Pow10(8 - Len(fp))))
    ELSE ParseValueError

ParseFloatAt(s, body, dot) == ParseFloatParts(s, IntDigits(body, dot), FracDigits(body, dot))

ParseFloatStripped(s) == ParseFloatAt(s, Unsigned(s), FindFrom(Unsigned(s), ".", 1))

ParseFloat(text) == ParseFloatStripped(Strip(text))

Sentinels == {OUT_OF_LIMIT, OUT_OF_RANGE, NA}

to_int(text) == IF text \in Sentinels THEN PyNone ELSE ParseInt(text)

to_float(text) == IF text \in Sentinels THEN PyNone ELSE ParseFloat(text)

\* text[:-1] drops the last character (of an empty text: nothing)
to_float_unit(text) ==
    to_float(IF Len(text) = 0 THEN "" ELSE SubSeq(text, 1, Len(text) - 1))

to_on_off(text) == PyBool(Upper(text) = "ON")

from_name(text) == "\"" \o text \o "\""

PyDate(y, m, d) == [t |-> "date", y |-> y, m |-> m, d |-> d]

\* text.strip('"')
RECURSIVE Unquote(_)
Unquote(s) ==
    IF Len(s) > 0 /\ CharAt(s, 1) = "\""
    THEN Unquote(SubSeq(s, 2, Len(s)))
    ELSE IF Len(s) > 0 /\ CharAt(s, Len(s)) = "\""
    THEN Unquote(SubSeq(s, 1, Len(s) - 1))
    ELSE s

\* the number of days of month m of year y
DaysIn(y, m) ==
    IF m = 2
    THEN (IF y % 4 = 0 /\ (y % 100 # 0 \/ y % 400 = 0) THEN 29 ELSE 28)
    ELSE IF m \in {4, 6, 9, 11} THEN 30 ELSE 31

\* datetime.date(year, month, day) of three results of int(): the first
\* int() that fails raises, and so does a date that does not exist
NewDate(m, d, y) ==
    IF m.t # "int" THEN m
    ELSE IF d.t # "int" THEN d
    ELSE IF y.t # "int" THEN y
    ELSE IF /\ y.v \in 1..9999
            /\ m.v \in 1..12
            /\ d.v \in 1..DaysIn(y.v, m.v)
    THEN PyDate(y.v, m.v, d.v)
    ELSE PyExc("ValueError", "date out of range")

\* month, day, year = [int(i) for i in text.strip('"').split('/')]
to_date(text) ==
    LET parts == Split(Unquote(text), "/")
    IN  IF Len(parts) # 3 THEN PyExc("ValueError", "not three values to unpack")
        ELSE NewDate(ParseInt(parts[1]), ParseInt(parts[2]), ParseInt(parts[3]))

\* func(text) for the named decode function; the result is a Python value or
\* the exception the function raises
Decode(func, text) ==
    CASE func = "identity" -> PyStr(text)
      [] func = "str" -> PyStr(text)
      [] func = "to_int" -> to_int(text)
      [] func = "to_float" -> to_float(text)
      [] func = "to_float_unit" -> to_float_unit(text)
      [] func = "to_on_off" -> to_on_off(text)
      [] func = "to_date" -> to_date(text)

IsExc(v) == v.t = "exc"

(***************************************************************************)
(* State.                                                                  *)
(***************************************************************************)
VARIABLES
    now,              \* time.time()
    last_comm_error,  \* CryoCon._last_comm_error: [err, ts]
    group,            \* CryoCon.group: PyNone or the open Group
    last_fail,        \* history: the OSError the transport raised last if no
                      \* transport call has returned since, the time it was
                      \* raised and the dispatches refused since: [err, ts, blocked]
    last              \* history: the latest operation, its dispatches and outcome

vars == <<now, last_comm_error, group, last_fail, last>>

NoCommError == [err |-> PyNone, ts |-> 0]

(***************************************************************************)
(* The transport (self._conn) and the instrument behind it.                *)
(***************************************************************************)
\* what one transport call does: the instrument answers every query of the
\* line (with one of two sets of values), answers with one piece too few,
\* answers NACK, or the transport raises an OSError: a reset at once, a
\* timeout after 1..MaxIoDelay seconds (a reply arrives within the resolution
\* of the clock)
IoOutcomes ==
    [kind : {"reply"}, variant : 1..2, short : {FALSE}, delay : {0}]
    \cup [kind : {"reply"}, variant : {1}, short : {TRUE}, delay : {0}]
    \cup [kind : {"nack"}, delay : {0}]
    \cup [kind : {"oserror"}, err : {PyExc("OSError", "connection reset")}, delay : {0}]
    \cup [kind : {"oserror"}, err : {PyExc("OSError", "timed out")}, delay : 1..MaxIoDelay]

\* the outcomes on a healthy link
ReplyOutcomes == {io \in IoOutcomes : io.kind = "reply"}

\* the instrument's answer to one query
Answer(cmd, variant) ==
    CASE EndsWith(cmd, ":TEMP?") -> IF variant = 1 THEN "4.2" ELSE OUT_OF_RANGE
      [] EndsWith(cmd, ":NAM?") -> IF variant = 1 THEN "\"ChA\"" ELSE "\"ChB\""
      [] EndsWith(cmd, ":TYP?") -> IF variant = 1 THEN "MAN" ELSE "PID"
      [] EndsWith(cmd, ":VSEN?") -> IF variant = 1 THEN "1.5V" ELSE " 0.25V"
      [] EndsWith(cmd, ":LOAD?") -> IF variant = 1 THEN "50" ELSE NA
      [] EndsWith(cmd, ":CONTROL?") -> IF variant = 1 THEN "ON" ELSE "off"
      [] EndsWith(cmd, ":OUTPWR?") -> IF variant = 1 THEN "5.00000005" ELSE "5.001"
      [] EndsWith(cmd, ":RANGE?") -> IF variant = 1 THEN "HI" ELSE "LOW"
      [] EndsWith(cmd, ":AUT:STAT?") -> IF variant = 1 THEN "IDLE" ELSE "BUSY"
      [] EndsWith(cmd, ":LOCKOUT?") -> IF variant = 1 THEN "OFF" ELSE "ON"
      [] OTHER -> ""

RECURSIVE NonEmpty(_)
NonEmpty(parts) ==
    IF Len(parts) = 0 THEN <<>>
    ELSE (IF parts[1] = "" THEN <<>> ELSE <<parts[1]>>) \o NonEmpty(Tail(parts))

RECURSIVE Answers(_, _)
Answers(qs, variant) ==
    IF Len(qs) = 0 THEN <<>>
    ELSE <<Answer(qs[1], variant)>> \o Answers(Tail(qs), variant)

\* a reply that misses its last piece
Shorten(pieces, short) ==
    IF short /\ Len(pieces) > 0 THEN SubSeq(pieces, 1, Len(pieces) - 1) ELSE pieces

\* the bytes write_readline returns for a request line
RawReply(line, io) ==
    IF io.kind = "nack" THEN NACK \o "\r\n"
    ELSE Join(Shorten(Answers(NonEmpty(Split(line, ";")), io.variant), io.short), ";")
           \o "\r\n"

(***************************************************************************)
(* CryoCon._ask                                                            *)
(***************************************************************************)
\* st is [err, ts, now]: _last_comm_error and the clock when _ask is entered.
\* The result records the dispatch: the command, the time it was attempted,
\* the dispatcher state it found (pre), the transport calls made (each the
\* method called and the bytes sent), the bytes the transport returned (raw),
\* the reply _ask returns or the exception it raises, and the dispatcher
\* state (post) and clock (tend) it leaves.
Dispatch(st, cmd, calls, raw, reply, exc, post, tend) ==
    [cmd |-> cmd, t |-> st.now, pre |-> [err |-> st.err, ts |-> st.ts],
     calls |-> calls, raw |-> raw, reply |-> reply, exc |-> exc,
     post |-> post, tend |-> tend]

\* self._conn.<fn>(cmd_raw), cmd_raw being the command and a newline
Call(fn, cmd) == <<[fn |-> fn, data |-> cmd \o "\n"]>>

\* a window one second too short
InCooldownShort(st) == st.now < st.ts + comm_error_retry_period - 1

\* now < (last_ts + self.comm_error_retry_period)
InCooldown(st) == st.now < st.ts + comm_error_retry_period

\* a refused dispatch that restarts the window
AskShortCircuitRestarts(st, cmd) ==
    Dispatch(st, cmd, <<>>, "", PyNone, st.err, [err |-> st.err, ts |-> st.now], st.now)

\* raise last_err
AskShortCircuit(st, cmd) ==
    Dispatch(st, cmd, <<>>, "", PyNone, st.err, [err |-> st.err, ts |-> st.ts], st.now)

\* except OSError as comm_error
AskCommError(st, cmd, fn, io) ==
    Dispatch(st, cmd, Call(fn, cmd), "", PyNone, io.err,
             [err |-> io.err, ts |-> st.now + io.delay], st.now + io.delay)

\* a NACK that leaves the stored error as it was
AskRepliedKeepsError(st, cmd, raw, tend) ==
    IF Strip(raw) = NACK
    THEN Dispatch(st, cmd, Call("write_readline", cmd), raw, PyNone, NackError,
                  [err |-> st.err, ts |-> st.ts], tend)
    ELSE Dispatch(st, cmd, Call("write_readline", cmd), raw, PyStr(Strip(raw)), PyNone,
                  NoCommError, tend)

\* the query branch once write_readline returned raw
AskReplied(st, cmd, raw, tend) ==
    IF Strip(raw) = NACK
    THEN Dispatch(st, cmd, Call("write_readline", cmd), raw, PyNone, NackError,
                  NoCommError, tend)
    ELSE Dispatch(st, cmd, Call("write_readline", cmd), raw, PyStr(Strip(raw)), PyNone,
                  NoCommError, tend)

AskQuery(st, cmd, io) ==
    IF io.kind = "oserror" THEN AskCommError(st, cmd, "write_readline", io)
    ELSE AskReplied(st, cmd, RawReply(cmd, io), st.now + io.delay)

\* a write that also reads a line
AskWriteReads(st, cmd, io) ==
    IF io.kind = "oserror"
    THEN AskCommError(st, cmd, "write_readline", io)
    ELSE Dispatch(st, cmd, Call("write_readline", cmd), RawReply(cmd, io),
                  PyStr(Strip(RawReply(cmd, io))), PyNone, NoCommError, st.now + io.delay)

\* the branch of a command that is no query
AskWrite(st, cmd, io) ==
    IF io.kind = "oserror" THEN AskCommError(st, cmd, "write", io)
    ELSE Dispatch(st, cmd, Call("write", cmd), "", PyNone, PyNone, NoCommError,
                  st.now + io.delay)

Ask(st, cmd, io) ==
    IF InCooldown(st) THEN AskShortCircuit(st, cmd)
    ELSE IF EndsWith(cmd, "?") THEN AskQuery(st, cmd, io)
    ELSE AskWrite(st, cmd, io)

\* dispatcher state and clock after a dispatch
After(r) == [err |-> r.post.err, ts |-> r.post.ts, now |-> r.tend]

(***************************************************************************)
(* CryoCon.Group                                                           *)
(***************************************************************************)
\* Group.__init__
NewGroup == [t |-> "group", cmds |-> <<"">>, funcs |-> <<>>]

\* len(cmds) + len(cmd) > 250
Overflows(g, cmd) == Len(g.cmds[Len(g.cmds)]) + Len(cmd) > MaxLineLen

\* self.cmds after the overflow test (cmds = ''; self.cmds.append(cmds))
StartLine(g, cmd) == IF Overflows(g, cmd) THEN Append(g.cmds, "") ELSE g.cmds

\* if self.cmds: cmds += ';' / cmds += cmd / self.cmds[-1] = cmds, where cmds
\* is the last line of the list
PutLast(list, cmd) ==
    [list EXCEPT ![Len(list)] =
        (IF Len(list) > 0 THEN list[Len(list)] \o ";" ELSE list[Len(list)]) \o cmd]

\* Group.append
GroupAppend(g, cmd, func) ==
    [t |-> "group",
     cmds |-> PutLast(StartLine(g, cmd), cmd),
     funcs |-> Append(g.funcs, func)]

\* [self.ctrl._ask(request) for request in self.cmds]: the dispatches made,
\* stopping at the first one that raises
RECURSIVE AskAll(_, _, _)
AskRest(r, lines, ios) ==
    IF IsExc(r.exc) THEN <<r>>
    ELSE <<r>> \o AskAll(After(r), Tail(lines), Tail(ios))

AskAll(st, lines, ios) ==
    IF Len(lines) = 0 THEN <<>>
    ELSE AskRest(Ask(st, lines[1], ios[1]), lines, ios)

RECURSIVE StripAll(_)
StripAll(parts) ==
    IF Len(parts) = 0 THEN <<>>
    ELSE <<Strip(parts[1])>> \o StripAll(Tail(parts))

\* [func(text) for func, text in zip(self.funcs, replies)]
RECURSIVE ZipDecode(_, _)
ZipDecode(funcs, texts) ==
    IF Len(funcs) = 0 \/ Len(texts) = 0 THEN <<>>
    ELSE <<Decode(funcs[1], texts[1])>> \o ZipDecode(Tail(funcs), Tail(texts))

\* the replies of the dispatched lines
ReplyTexts(asks) == [i \in DOMAIN asks |-> asks[i].reply.s]

\* (msg.strip() for msg in ';'.join(...).split(';'))
Pieces(asks) == StripAll(Split(Join(ReplyTexts(asks), ";"), ";"))

FirstExc(vals) ==
    vals[CHOOSE i \in DOMAIN vals :
            IsExc(vals[i]) /\ \A j \in DOMAIN vals : IsExc(vals[j]) => i <= j]

\* the outcome of Group.query: the dispatches, the reply pieces, the decoded
\* replies and the exception raised (PyNone when it returns)
Queried(asks, pieces, replies, exc) ==
    [asks |-> asks, pieces |-> pieces, replies |-> replies, exc |-> exc]

QueryDecoded(asks, pieces, replies) ==
    IF \E i \in DOMAIN replies : IsExc(replies[i])
    THEN Queried(asks, pieces, <<>>, FirstExc(replies))
    ELSE Queried(asks, pieces, replies, PyNone)

QueryPieces(g, asks, pieces) == QueryDecoded(asks, pieces, ZipDecode(g.funcs, pieces))

QueryAsked(g, asks) ==
    IF \E i \in DOMAIN asks : IsExc(asks[i].exc)
    THEN Queried(asks, <<>>, <<>>, asks[Len(asks)].exc)
    ELSE IF \E i \in DOMAIN asks : asks[i].reply = PyNone
    THEN Queried(asks, <<>>, <<>>, JoinTypeError)
    ELSE QueryPieces(g, asks, Pieces(asks))

\* Group.query
GroupQuery(st, g, ios) == QueryAsked(g, AskAll(st, g.cmds, ios))

(***************************************************************************)
(* Results of the controller's methods: the dispatches made (asks), the    *)
(* group afterwards (grp), the value returned and the exception raised     *)
(* (PyNone when the method returns).                                       *)
(***************************************************************************)
Returns(asks, grp, value) == [asks |-> asks, grp |-> grp, value |-> value, exc |-> PyNone]

Raises(asks, grp, exc) == [asks |-> asks, grp |-> grp, value |-> PyNone, exc |-> exc]

\* dispatcher state and clock after a sequence of dispatches started in st
StAfter(st, asks) == IF Len(asks) = 0 THEN st ELSE After(asks[Len(asks)])

\* CryoCon._query
QueryDecodedReply(grp, r, v) ==
    IF IsExc(v) THEN Raises(<<r>>, grp, v) ELSE Returns(<<r>>, grp, v)

QueryAsk(grp, r, func) ==
    IF IsExc(r.exc) THEN Raises(<<r>>, grp, r.exc)
    ELSE QueryDecodedReply(grp, r, Decode(func, r.reply.s))

\* a read that is dispatched whether or not a batch is open
CtrlQueryUnbatched(st, grp, cmd, func, io) == QueryAsk(grp, Ask(st, cmd, io), func)

CtrlQuery(st, grp, cmd, func, io) ==
    IF grp = PyNone THEN QueryAsk(grp, Ask(st, cmd, io), func)
    ELSE Returns(<<>>, GroupAppend(grp, cmd, func), PyNone)

\* "not reply" for the value _ask returned
Falsy(v) == v = PyNone \/ v = PyStr("")

\* CryoCon._command
CommandAsk(grp, r) ==
    IF IsExc(r.exc) THEN Raises(<<r>>, grp, r.exc)
    ELSE IF ~Falsy(r.reply) THEN Raises(<<r>>, grp, NotReplyError)
    ELSE Returns(<<r>>, grp, PyNone)

CtrlCommand(st, grp, cmd, io) == CommandAsk(grp, Ask(st, cmd, io))

(***************************************************************************)
(* _Property and the bindings of Channel and Loop.                         *)
(***************************************************************************)
\* _Property.__init__ (fget, fset: the name of the function, or "None")
Property(prefix, name, fget, fset) ==
    [prefix |-> Upper(prefix), name |-> Upper(name), fget |-> fget, fset |-> fset]

\* self.cmd.format(obj.id)
PropertyCmd(p, id) == ":" \o p.prefix \o " " \o id \o ":" \o p.name

\* self.fset(value), formatted by '{}'
Encode(fset, value) == IF fset = "from_name" THEN from_name(value) ELSE value

\* the bindings of Channel that the model exercises
ChannelProps ==
    [name        |-> Property("INPUT", "nam", "identity", "from_name"),
     temperature |-> Property("INPUT", "temp", "to_float", "identity")]

\* the bindings of Loop that the model exercises
LoopProps ==
    [type           |-> Property("LOOP", "typ", "identity", "identity"),
     load           |-> Property("LOOP", "load", "to_int", "identity"),
     output_voltage |-> Property("LOOP", "vsen", "to_float_unit", "None"),
     autotune_status |-> Property("LOOP", "aut:stat", "str", "None")]

\* a binding built with fget=None, the case _Property.__get__ guards against;
\* the classes of cryocon.py declare none
WriteOnlyProps == [write_only |-> Property("LOOP", "wo", "None", "identity")]

\* the bindings a loop is tried with
LoopBindings == LoopProps @@ WriteOnlyProps

\* _Property.__get__
PropertyGet(st, grp, p, id, io) ==
    IF p.fget = "None" THEN Raises(<<>>, grp, AttributeError)
    ELSE CtrlQuery(st, grp, PropertyCmd(p, id) \o "?", p.fget, io)

\* a write that does not test fset
PropertySetUnguarded(st, grp, p, id, value, io) ==
    CtrlCommand(st, grp, PropertyCmd(p, id) \o " " \o Encode(p.fset, value), io)

\* _Property.__set__
PropertySet(st, grp, p, id, value, io) ==
    IF p.fset = "None" THEN Raises(<<>>, grp, AttributeError)
    ELSE CtrlCommand(st, grp, PropertyCmd(p, id) \o " " \o Encode(p.fset, value), io)

(***************************************************************************)
(* Loop's hand-written operations.                                         *)
(***************************************************************************)
\* DELTA_RB, in units of 1e-8
DELTA_RB == 10

\* Loop._query
LoopQuery(st, grp, n, cmd, func, io) ==
    CtrlQuery(st, grp, ":LOOP " \o ToString(n) \o ":" \o cmd \o "?", func, io)

Abs(x) == IF x < 0 THEN 0 - x ELSE x

\* Loop.output_power (getter)
OutputPowerGet(st, grp, n, io) == LoopQuery(st, grp, n, "OUTPWR", "to_float", io)

\* Loop.output_power (setter), in its three steps; power is [v, s]: the
\* float and its '{}' text
\* a setter that does not look at the mode it read
PowerSetModeIgnored(o1) == o1

\* if self.type != 'MAN': raise CryoConError
PowerSetModeRead(o1) ==
    IF IsExc(o1.exc) THEN o1
    ELSE IF o1.value # PyStr("MAN") THEN Raises(o1.asks, o1.grp, ManualModeError)
    ELSE o1

PowerSetMode(st, grp, n, io1) ==
    PowerSetModeRead(PropertyGet(st, grp, LoopProps.type, ToString(n), io1))

\* self._query('OUTPWR {}'.format(power)), after the mode check o1 passed
PowerSetWritten(o1, o2) ==
    IF IsExc(o2.exc) THEN Raises(o1.asks \o o2.asks, o2.grp, o2.exc)
    ELSE Returns(o1.asks \o o2.asks, o2.grp, PyNone)

PowerSetWrite(st, o1, n, power, io2) ==
    PowerSetWritten(o1, LoopQuery(StAfter(st, o1.asks), o1.grp, n,
                                  "OUTPWR " \o power.s, "identity", io2))

\* a read back compared with a tolerance of 1e-8
PowerSetComparedTight(o2, o3, power) ==
    IF IsExc(o3.exc) THEN Raises(o2.asks \o o3.asks, o3.grp, o3.exc)
    ELSE IF o3.value = PyNone
    THEN Raises(o2.asks \o o3.asks, o3.grp, NoneArithTypeError)
    ELSE IF Abs(o3.value.v - power.v) > 1
    THEN Raises(o2.asks \o o3.asks, o3.grp, ReadbackError)
    ELSE Returns(o2.asks \o o3.asks, o3.grp, PyNone)

\* rb = self.output_power and abs(rb - power) > DELTA_RB, after the write o2
PowerSetCompared(o2, o3, power) ==
    IF IsExc(o3.exc) THEN Raises(o2.asks \o o3.asks, o3.grp, o3.exc)
    ELSE IF o3.value = PyNone
    THEN Raises(o2.asks \o o3.asks, o3.grp, NoneArithTypeError)
    ELSE IF Abs(o3.value.v - power.v) > DELTA_RB
    THEN Raises(o2.asks \o o3.asks, o3.grp, ReadbackError)
    ELSE Returns(o2.asks \o o3.asks, o3.grp, PyNone)

PowerSetReadBack(st, o2, n, power, io3) ==
    PowerSetCompared(o2, OutputPowerGet(StAfter(st, o2.asks), o2.grp, n, io3), power)

InRanges(text) == \E i \in DOMAIN RANGES : RANGES[i] = text

\* Loop.range (getter)
RangeGet(st, grp, n, io) == LoopQuery(st, grp, n, "RANGE", "identity", io)

\* Loop.range (setter)
RangeSetQueried(o) == IF IsExc(o.exc) THEN o ELSE Returns(o.asks, o.grp, PyNone)

RangeSet(st, grp, n, rng, io) ==
    IF n # 1 THEN Raises(<<>>, grp, IndexError)
    ELSE IF ~InRanges(Upper(rng)) THEN Raises(<<>>, grp, RangeValueError)
    ELSE RangeSetQueried(LoopQuery(st, grp, n, "RANGE " \o rng, "identity", io))

(***************************************************************************)
(* Channel's and CryoCon's hand-written operations.                        *)
(***************************************************************************)
\* Channel.clear_alarm
ClearAlarm(st, grp, ch, io) == CtrlCommand(st, grp, ":INPUT A:ALAR:CLE", io)

\* CryoCon.control (getter)
ControlGet(st, grp, io) == CtrlQuery(st, grp, ":CONTROL?", "to_on_off", io)

\* CryoCon.lockout (getter)
LockoutGet(st, grp, io) == CtrlQuery(st, grp, ":SYSTEM:LOCKOUT?", "to_on_off", io)

\* CryoCon.control (setter); onoff is the text of the value given
ControlSet(st, grp, onoff, io) ==
    CtrlCommand(st, grp, IF onoff \in {"True", "on", "ON"} THEN "CONTROL" ELSE "STOP", io)

\* Python's "a or b" on numbers
PyOr(a, b) == IF a # 0 THEN a ELSE b

\* (0.5, 1, 2, 4, 8, 16, 32 or 64), in halves of a second
FilterTimes == {1, 2, 4, 8, 16, 32, PyOr(64, 128)}

FilterTimeError == PyExc("AssertionError", "assert value in (0.5, 1, 2, 4, 8, 16, 32 or 64)")

\* CryoCon.display_filter_time (setter); value is [h, s]: the number in
\* halves and its '{}' text
DisplayFilterTimeSet(st, grp, value, io) ==
    IF value.h \notin FilterTimes THEN Raises(<<>>, grp, FilterTimeError)
    ELSE CtrlCommand(st, grp, ":SYSTEM:DISTC " \o value.s, io)

\* '%m' and '%d': two digits
Pad2(n) == IF n < 10 THEN "0" \o ToString(n) ELSE ToString(n)

\* a date written day first
StrftimeDayFirst(date) ==
    "\"" \o Pad2(date.d) \o "/" \o Pad2(date.m) \o "/" \o ToString(date.y) \o "\""

\* date.strftime('"%m/%d/%Y"'), for years of four digits
Strftime(date) ==
    "\"" \o Pad2(date.m) \o "/" \o Pad2(date.d) \o "/" \o ToString(date.y) \o "\""

\* if not date.startswith('"'): date = '"{}"'.format(date)
QuoteIfBare(text) == IF StartsWith(text, "\"") THEN text ELSE "\"" \o text \o "\""

\* CryoCon.date (setter); date is a PyDate or a PyStr
DateSet(st, grp, date, io) ==
    CtrlCommand(st, grp,
                ":SYSTEM:DATE "
                  \o QuoteIfBare(IF date.t = "date" THEN Strftime(date) ELSE date.s),
                io)

\* CryoCon.__exit__: the group is detached, then queried; an exception of the
\* query replaces the one the scope was left with (scope_exc, PyNone when the
\* scope ended normally), which otherwise propagates since __exit__ returns None
ExitQueried(q, scope_exc) ==
    [asks |-> q.asks, grp |-> PyNone, pieces |-> q.pieces, replies |-> q.replies,
     value |-> PyNone, exc |-> IF IsExc(q.exc) THEN q.exc ELSE scope_exc]

\* a close that detaches the group only after a query that returned
CtrlExitLeavesOpen(st, grp, scope_exc, ios) ==
    IF IsExc(GroupQuery(st, grp, ios).exc)
    THEN [ExitQueried(GroupQuery(st, grp, ios), scope_exc) EXCEPT !.grp = grp]
    ELSE ExitQueried(GroupQuery(st, grp, ios), scope_exc)

CtrlExit(st, grp, scope_exc, ios) == ExitQueried(GroupQuery(st, grp, ios), scope_exc)

(***************************************************************************)
(* The state machine.                                                      *)
(***************************************************************************)
MaxTime == StartTime + MaxTicks

\* the entities and inputs the operations are tried with
Channels == {"A", "B"}
Loops == {1, 2}
\* the loop whose bindings and output power are exercised
BoundLoops == {1}
ChannelReadAttrs == {"temperature"}
ChannelWriteAttrs == {"name"}
LoopReadAttrs == {"type", "output_voltage", "write_only"}
LoopWriteAttrs == {"type", "output_voltage"}
NameValues == {"ChA"}
TypeValues == {"MAN"}
RangeValues == {"LOW", "low", "MAX"}
OnOffValues == {"ON"}
PowerValues == {[v |-> 500000000, s |-> "5.0"]}
FilterTimeValues ==
    {[h |-> 1, s |-> "0.5"], [h |-> 128, s |-> "64"], [h |-> 6, s |-> "3"]}
\* the exception a batch scope may be left with
ScopeError == PyExc("RuntimeError", "raised inside the with block")
ScopeExits == {PyNone, ScopeError}

St == [err |-> last_comm_error.err, ts |-> last_comm_error.ts, now |-> now]

IsCommFailure(r) == Len(r.calls) > 0 /\ IsExc(r.exc) /\ r.exc.cls = "OSError"

\* the operation's effect on the state, and its record in last
Committed(op, kind, id, attr, arg, scope_exc, out, pieces, results, fin) ==
    /\ fin.now <= MaxTime
    /\ now' = fin.now
    /\ last_comm_error' = [err |-> fin.err, ts |-> fin.ts]
    /\ group' = out.grp
    /\ last_fail' = IF Len(out.asks) > 0 /\ IsCommFailure(out.asks[Len(out.asks)])
                    THEN [err |-> out.asks[Len(out.asks)].exc,
                          ts |-> out.asks[Len(out.asks)].tend,
                          blocked |-> 0]
                    ELSE IF \E i \in DOMAIN out.asks : Len(out.asks[i].calls) > 0
                    THEN [err |-> PyNone, ts |-> 0, blocked |-> 0]
                    ELSE [last_fail EXCEPT !.blocked =
                            IF @ + Cardinality({i \in DOMAIN out.asks :
                                                  Len(out.asks[i].calls) = 0}) > MaxBlocked
                            THEN MaxBlocked
                            ELSE @ + Cardinality({i \in DOMAIN out.asks :
                                                    Len(out.asks[i].calls) = 0})]
    /\ last' = [op |-> op, kind |-> kind, id |-> id, attr |-> attr, arg |-> arg,
                before |-> group, stored |-> last_comm_error,
                failed |-> last_fail, scope_exc |-> scope_exc,
                asks |-> out.asks, value |-> out.value, exc |-> out.exc,
                pieces |-> pieces, results |-> results]

Commit(op, kind, id, attr, arg, scope_exc, out, pieces, results) ==
    Committed(op, kind, id, attr, arg, scope_exc, out, pieces, results,
              StAfter(St, out.asks))

\* an operation given the argument arg (its text)
DoneArg(op, kind, id, attr, arg, out) ==
    Commit(op, kind, id, attr, arg, PyNone, out, <<>>, <<>>)

Done(op, kind, id, attr, out) == DoneArg(op, kind, id, attr, "", out)

CanAppend == group # PyNone => Len(group.funcs) < MaxAppend

\* the transport outcomes to consider for an operation's first dispatch: one
\* is enough when no transport call is made (the dispatcher is cooling down,
\* or the operation is a read deferred to the open batch), and a write reads
\* no reply, so that it only matters whether the transport raises
IosIf(calls, query) ==
    IF ~calls THEN {[kind |-> "nack", delay |-> 0]}
    ELSE IF query THEN IoOutcomes
    ELSE {io \in IoOutcomes : io.kind # "reply"}

Ios(query) == IosIf(~InCooldown(St) /\ ~(query /\ group # PyNone), query)

Init ==
    /\ now = StartTime
    /\ last_comm_error = NoCommError
    /\ group = PyNone
    /\ last_fail = [err |-> PyNone, ts |-> 0, blocked |-> 0]
    /\ last = [op |-> "init", kind |-> "", id |-> "", attr |-> "", arg |-> "",
               before |-> PyNone, stored |-> NoCommError,
               failed |-> [err |-> PyNone, ts |-> 0, blocked |-> 0], scope_exc |-> PyNone, asks |-> <<>>, value |-> PyNone,
               exc |-> PyNone, pieces |-> <<>>, results |-> <<>>]

\* the clock advances between operations
Tick ==
    /\ now < MaxTime
    /\ now' = now + 1
    /\ last' = [op |-> "tick", kind |-> "", id |-> "", attr |-> "", arg |-> "",
                before |-> group, stored |-> last_comm_error,
                failed |-> last_fail, scope_exc |-> PyNone, asks |-> <<>>, value |-> PyNone,
                exc |-> PyNone, pieces |-> <<>>, results |-> <<>>]
    /\ UNCHANGED <<last_comm_error, group, last_fail>>

\* with ctrl as group: (sessions are not nested)
Enter ==
    /\ group = PyNone
    /\ Done("enter", "ctrl", "", "", Returns(<<>>, NewGroup, PyNone))

\* the end of the with block, normal or by an exception
Exited(scope_exc, out) ==
    Commit("exit", "ctrl", "", "", "", scope_exc, out, out.pieces, out.replies)

Exit ==
    /\ group # PyNone
    /\ \E scope_exc \in ScopeExits,
          ios \in [1..Len(group.cmds) -> IosIf(~InCooldown(St), Len(group.funcs) > 0)] :
         Exited(scope_exc, CtrlExit(St, group, scope_exc, ios))

ChannelGet ==
    /\ CanAppend
    /\ \E ch \in Channels, attr \in ChannelReadAttrs, io \in Ios(TRUE) :
         Done("get", "channel", ch, attr, PropertyGet(St, group, ChannelProps[attr], ch, io))

ChannelSet ==
    \E ch \in Channels, attr \in ChannelWriteAttrs, v \in NameValues, io \in Ios(FALSE) :
      Done("set", "channel", ch, attr, PropertySet(St, group, ChannelProps[attr], ch, v, io))

LoopGet ==
    /\ CanAppend
    /\ \E n \in BoundLoops, attr \in LoopReadAttrs, io \in Ios(TRUE) :
         Done("get", "loop", ToString(n), attr,
              PropertyGet(St, group, LoopBindings[attr], ToString(n), io))

LoopSet ==
    \E n \in BoundLoops, attr \in LoopWriteAttrs, v \in TypeValues, io \in Ios(FALSE) :
      Done("set", "loop", ToString(n), attr,
           PropertySet(St, group, LoopBindings[attr], ToString(n), v, io))

PowerSetDone(n, out) == Done("set", "loop", ToString(n), "output_power", out)

PowerSetThird(n, power, o2) ==
    IF IsExc(o2.exc) THEN PowerSetDone(n, o2)
    ELSE \E io3 \in IoOutcomes : PowerSetDone(n, PowerSetReadBack(St, o2, n, power, io3))

PowerSetSecond(n, power, o1) ==
    IF IsExc(o1.exc) THEN PowerSetDone(n, o1)
    ELSE \E io2 \in IoOutcomes : PowerSetThird(n, power, PowerSetWrite(St, o1, n, power, io2))

LoopOutputPowerSet ==
    /\ CanAppend
    /\ \E n \in BoundLoops, power \in PowerValues, io1 \in Ios(TRUE) :
         PowerSetSecond(n, power, PowerSetMode(St, group, n, io1))

LoopRangeSet ==
    /\ CanAppend
    /\ \E n \in Loops, rng \in RangeValues, io \in Ios(TRUE) :
         Done("set", "loop", ToString(n), "range", RangeSet(St, group, n, rng, io))

ChannelClearAlarm ==
    \E ch \in Channels, io \in Ios(FALSE) :
      Done("set", "channel", ch, "clear_alarm", ClearAlarm(St, group, ch, io))

CtrlControlGet ==
    /\ CanAppend
    /\ \E io \in Ios(TRUE) : Done("get", "ctrl", "", "control", ControlGet(St, group, io))

CtrlControlSet ==
    \E onoff \in OnOffValues, io \in Ios(FALSE) :
      Done("set", "ctrl", "", "control", ControlSet(St, group, onoff, io))

CtrlDisplayFilterTimeSet ==
    \E value \in FilterTimeValues, io \in Ios(FALSE) :
      DoneArg("set", "ctrl", "", "display_filter_time", value.s,
              DisplayFilterTimeSet(St, group, value, io))

Next ==
    \/ Tick
    \/ Enter
    \/ Exit
    \/ ChannelGet
    \/ ChannelSet
    \/ LoopGet
    \/ LoopSet
    \/ LoopOutputPowerSet
    \/ LoopRangeSet
    \/ ChannelClearAlarm
    \/ CtrlControlGet
    \/ CtrlControlSet
    \/ CtrlDisplayFilterTimeSet

Spec == Init /\ [][Next]_vars

(***************************************************************************)
(* Long batch sessions on a healthy link: up to MaxBatchAppend reads of    *)
(* two attributes, whose commands are 16 and 17 characters long, so that   *)
(* request lines fill up and overflow.                                     *)
(***************************************************************************)
BatchEnter ==
    /\ group = PyNone
    /\ Done("enter", "ctrl", "", "", Returns(<<>>, NewGroup, PyNone))

BatchLockoutGet ==
    /\ group # PyNone
    /\ Len(group.funcs) < MaxBatchAppend
    /\ \E io \in IosIf(FALSE, TRUE) :
         Done("get", "ctrl", "", "lockout", LockoutGet(St, group, io))

BatchAutotuneGet ==
    /\ group # PyNone
    /\ Len(group.funcs) < MaxBatchAppend
    /\ \E n \in BoundLoops, io \in IosIf(FALSE, TRUE) :
         Done("get", "loop", ToString(n), "autotune_status",
              PropertyGet(St, group, LoopProps.autotune_status, ToString(n), io))

BatchExit ==
    /\ group # PyNone
    /\ \E ios \in [1..Len(group.cmds) -> ReplyOutcomes] :
         Exited(PyNone, CtrlExit(St, group, PyNone, ios))

NextBatch ==
    \/ BatchEnter
    \/ BatchLockoutGet
    \/ BatchAutotuneGet
    \/ BatchExit

SpecBatch == Init /\ [][NextBatch]_vars

(***************************************************************************)
(* The decoders applied to reply texts, and dates written on a healthy     *)
(* link.                                                                   *)
(***************************************************************************)
\* every date of a century common year, a century leap year and a leap
\* year, and a date given as text
DateValues ==
    {date \in {PyDate(y, m, d) : y \in {1900, 2000, 2024}, m \in 1..12, d \in 1..31} :
        date.d <= DaysIn(date.y, date.m)}
    \cup {PyStr("03/07/2024")}

CodecDateSet ==
    \E date \in DateValues, io \in {o \in Ios(FALSE) : o.kind # "oserror"} :
      DoneArg("set", "ctrl", "", "date", date, DateSet(St, group, date, io))

\* func(text), as CryoCon._query and Group.query apply it to a reply text
CodecDecode ==
    \E func \in {"to_int", "to_float", "to_float_unit", "to_date"},
       text \in Sentinels \cup {"4.2", "12", "1.5V", "abc", "", "\"03/07/2024\"",
                                "02/30/2024", "7/3"} :
      DoneArg("decode", "", "", func, text,
              IF IsExc(Decode(func, text))
              THEN Raises(<<>>, group, Decode(func, text))
              ELSE Returns(<<>>, group, Decode(func, text)))

NextCodec ==
    \/ CodecDateSet
    \/ CodecDecode

SpecCodec == Init /\ [][NextCodec]_vars

(***************************************************************************)
(* Properties.                                                             *)
(***************************************************************************)
Called(r) == Len(r.calls) > 0

\* the fget / fset of the binding the latest operation used ("n/a" for a
\* hand-written property or method)
LastFget ==
    IF last.kind = "channel" /\ last.attr \in DOMAIN ChannelProps
    THEN ChannelProps[last.attr].fget
    ELSE IF last.kind = "loop" /\ last.attr \in DOMAIN LoopBindings
    THEN LoopBindings[last.attr].fget
    ELSE "n/a"

LastFset ==
    IF last.kind = "channel" /\ last.attr \in DOMAIN ChannelProps
    THEN ChannelProps[last.attr].fset
    ELSE IF last.kind = "loop" /\ last.attr \in DOMAIN LoopBindings
    THEN LoopBindings[last.attr].fset
    ELSE "n/a"

\* number of commands held in the lines of a group
CmdCount(g) == Len(NonEmpty(Split(Join(g.cmds, ";"), ";")))

InWindow(f, t) == IsExc(f.err) /\ f.ts <= t /\ t < f.ts + comm_error_retry_period

PastWindow(f, t) == IsExc(f.err) /\ t >= f.ts + comm_error_retry_period

C1Dispatch(f, r) ==
    /\ InWindow(f, r.t) => ~Called(r) /\ r.exc = f.err
    /\ PastWindow(f, r.t) => Called(r)

\* C1: after the transport raised an OSError at time T (last.failed: the
\* latest such error before the operation), every dispatch attempted at a
\* time in [T, T + comm_error_retry_period) makes no transport call and
\* raises that error, and every dispatch attempted at or after
\* T + comm_error_retry_period calls the transport.
C1_CooldownWindow == \A i \in DOMAIN last.asks : C1Dispatch(last.failed, last.asks[i])

\* a dispatch in the last second of the window was short-circuited
C1_Witness ==
    \E i \in DOMAIN last.asks :
        /\ IsExc(last.failed.err)
        /\ last.asks[i].t = last.failed.ts + comm_error_retry_period - 1
        /\ ~Called(last.asks[i])
        /\ last.asks[i].exc = last.failed.err

C2Dispatch(r) ==
    /\ (Called(r) /\ ~IsCommFailure(r)) => r.post = NoCommError
    /\ (IsExc(r.post.err) /\ r.post # r.pre) => IsCommFailure(r)
    /\ r.pre = NoCommError => Called(r)

\* C2: a dispatch that reached the transport and succeeded, or failed for
\* another reason than an OSError (a NACK), leaves (None, 0) stored; only an
\* OSError of the transport stores an error; and a dispatch that finds
\* (None, 0), as the next one does, calls the transport.  Each dispatch
\* finds what the one before left, and the last one's state is the
\* dispatcher's.
C2_ClearsError ==
    /\ \A i \in DOMAIN last.asks : C2Dispatch(last.asks[i])
    /\ \A i \in DOMAIN last.asks :
          last.asks[i].pre = (IF i = 1 THEN last.stored ELSE last.asks[i - 1].post)
    /\ Len(last.asks) > 0 => last_comm_error = last.asks[Len(last.asks)].post

\* a NACK reply cleared an error that was still stored (its window over)
C2_Witness ==
    \E i \in DOMAIN last.asks :
        /\ last.asks[i].exc = NackError
        /\ IsExc(last.asks[i].pre.err)
        /\ last_comm_error = NoCommError

\* C3: every line of an open batch is at most 250 characters long.
C3_LineLimit ==
    group # PyNone => \A i \in DOMAIN group.cmds : Len(group.cmds[i]) <= MaxLineLen

\* C4: after a batch session closed without error, there is one decoded
\* result per appended operation, and the i-th result is the i-th decode
\* function applied to the i-th reply piece.
C4_ResultsMatch ==
    (last.op = "exit" /\ last.exc = PyNone) =>
        /\ Len(last.results) = Len(last.before.funcs)
        /\ \A i \in DOMAIN last.results :
              last.results[i] = Decode(last.before.funcs[i], last.pieces[i])

\* C5: closing a batch no read was appended to makes no transport call and
\* raises nothing.
C5_EmptyBatchSilent ==
    (last.op = "exit" /\ Len(last.before.funcs) = 0 /\ last.scope_exc = PyNone) =>
        /\ \A i \in DOMAIN last.asks : ~Called(last.asks[i])
        /\ last.exc = PyNone

\* C6: a read of a readable attribute while a batch is open returns nothing,
\* makes no dispatch, adds its decode function and exactly one command to
\* the batch and leaves the stored error as it was; the close of the batch
\* dispatches its first line.
C6_ReadDeferred ==
    /\ (last.op = "get" /\ last.before # PyNone /\ LastFget # "None") =>
          /\ last.asks = <<>>
          /\ last.exc = PyNone
          /\ last.value = PyNone
          /\ group # PyNone
          /\ Len(group.funcs) = Len(last.before.funcs) + 1
          /\ SubSeq(group.funcs, 1, Len(last.before.funcs)) = last.before.funcs
          /\ group.funcs[Len(group.funcs)] = LastFget \/ LastFget = "n/a"
          /\ CmdCount(group) = CmdCount(last.before) + 1
          /\ last_comm_error = last.stored
    /\ (last.op = "exit" /\ Len(last.before.funcs) > 0) =>
          /\ Len(last.asks) > 0
          /\ last.asks[1].cmd = last.before.cmds[1]

\* a read was deferred while an error was stored
C6_Witness ==
    /\ last.op = "get"
    /\ last.before # PyNone
    /\ LastFget = "to_float"
    /\ IsExc(last.stored.err)
    /\ Len(group.funcs) = 1

\* the exceptions by which a write rejects its arguments
Rejections == {AttributeError, IndexError, RangeValueError}

\* C7: a write made while a batch is open, unless it rejects its arguments,
\* is dispatched at once and leaves the batch as it was.
C7_WritesImmediate ==
    (last.op = "set" /\ last.before # PyNone /\ last.exc \notin Rejections) =>
        /\ Len(last.asks) > 0
        /\ group = last.before

\* C8: when the scope of a batch is left by an exception, the close
\* dispatches every pending line and the exception that reaches the caller
\* is the one raised inside the scope.
C8_ScopeErrorPropagates ==
    (last.op = "exit" /\ IsExc(last.scope_exc)) =>
        /\ last.exc = last.scope_exc
        /\ Len(last.before.funcs) > 0 =>
              /\ Len(last.asks) = Len(last.before.cmds)
              /\ \A i \in DOMAIN last.asks : Called(last.asks[i])

NoEdgeWhitespace(s) ==
    Len(s) = 0 \/ (CharAt(s, 1) \notin Whitespace /\ CharAt(s, Len(s)) \notin Whitespace)

C9Query(r) ==
    /\ r.calls[1].fn = "write_readline"
    /\ ~IsCommFailure(r) =>
          IF Strip(r.raw) = NACK
          THEN r.exc = NackError /\ r.reply = PyNone
          ELSE /\ r.exc = PyNone
               /\ r.reply = PyStr(Strip(r.raw))
               /\ NoEdgeWhitespace(r.reply.s)

C9Write(r) ==
    /\ r.calls[1].fn = "write"
    /\ r.reply = PyNone
    /\ r.raw = ""
    /\ ~IsCommFailure(r) => r.exc = PyNone

C9Dispatch(r) ==
    Called(r) =>
        /\ Len(r.calls) = 1
        /\ r.calls[1].data = r.cmd \o "\n"
        /\ IF EndsWith(r.cmd, "?") THEN C9Query(r) ELSE C9Write(r)

\* C9: a dispatch that is not short-circuited makes exactly one transport
\* call with the command and a newline: write_readline for a query, which
\* returns the stripped reply or raises CryoConError when the stripped reply
\* is NACK; write for any other command, which reads and returns nothing.
C9_OneTransportCall == \A i \in DOMAIN last.asks : C9Dispatch(last.asks[i])

\* a query returned a reply that arrived with whitespace on both sides
C9_Witness ==
    \E i \in DOMAIN last.asks :
        /\ last.asks[i].raw = " 0.25V\r\n"
        /\ last.asks[i].reply = PyStr("0.25V")

\* C10: a write to a binding without fset, or a read of a binding without
\* fget, raises AttributeError, makes no dispatch, leaves the open batch as
\* it was and the stored error unchanged.
C10_Unsupported ==
    ((last.op = "set" /\ LastFset = "None") \/ (last.op = "get" /\ LastFget = "None")) =>
        /\ last.exc = AttributeError
        /\ last.asks = <<>>
        /\ group = last.before
        /\ last_comm_error = last.stored

\* a read-only binding was written while a batch with a deferred read was open
C10_Witness ==
    /\ last.op = "set"
    /\ last.attr = "output_voltage"
    /\ last.before # PyNone
    /\ Len(group.funcs) = 1
    /\ last.exc = AttributeError

\* the range setter ran without a batch open
RangeSetDirect == last.op = "set" /\ last.attr = "range" /\ last.before = PyNone

\* C11: the range setter on a loop other than 1 raises IndexError and sends
\* nothing; on loop 1 with a value that is not HI, MID or LOW in any case it
\* raises ValueError and sends nothing; otherwise the command it dispatches
\* is exactly ':LOOP 1:RANGE <value>'.
C11_RangeCommand ==
    RangeSetDirect =>
        /\ last.id # "1" => last.exc = IndexError /\ last.asks = <<>>
        /\ last.exc = RangeValueError => last.asks = <<>>
        /\ \A i \in DOMAIN last.asks :
              Called(last.asks[i]) =>
                  \E r \in RangeValues :
                      last.asks[i].calls[1].data = ":LOOP 1:RANGE " \o r \o "\n"

\* the output power setter ran without a batch open
PowerSetDirect == last.op = "set" /\ last.attr = "output_power" /\ last.before = PyNone

IsStr(v) == v.t = "str"

\* C12: when the mode the output power setter reads is not 'MAN', it raises
\* the manual-mode CryoConError and its only dispatch is the read of the
\* mode; whenever that error is raised no OUTPWR command was dispatched.
C12_ManualModeOnly ==
    /\ (PowerSetDirect /\ Len(last.asks) > 0 /\ IsStr(last.asks[1].reply)
          /\ last.asks[1].reply # PyStr("MAN")) =>
          /\ last.exc = ManualModeError
          /\ Len(last.asks) = 1
          /\ last.asks[1].cmd = ":LOOP " \o last.id \o ":TYP?"
    /\ last.exc = ManualModeError =>
          \A i \in DOMAIN last.asks : last.asks[i].cmd = ":LOOP " \o last.id \o ":TYP?"

\* the loop answered PID and the setter stopped after the mode read
C12_Witness ==
    /\ PowerSetDirect
    /\ Len(last.asks) = 1
    /\ last.asks[1].reply = PyStr("PID")
    /\ last.exc = ManualModeError

\* the setter's three dispatches all returned, the last one a number
PowerSetReadBackDone ==
    /\ PowerSetDirect
    /\ Len(last.asks) = 3
    /\ \A i \in 1..3 : last.asks[i].exc = PyNone
    /\ to_float(last.asks[3].reply.s).t = "float"

AllowedFilterTimes == {"0.5", "1", "2", "4", "8", "16", "32", "64"}

\* C14: the display filter time setter dispatches ':SYSTEM:DISTC <value>'
\* for every value among 0.5, 1, 2, 4, 8, 16, 32 and 64, and for any other
\* value raises before anything is dispatched.
C14_FilterTimes ==
    (last.op = "set" /\ last.attr = "display_filter_time") =>
        IF last.arg \in AllowedFilterTimes
        THEN /\ last.exc # FilterTimeError
             /\ Len(last.asks) = 1
             /\ last.asks[1].cmd = ":SYSTEM:DISTC " \o last.arg
        ELSE /\ last.exc = FilterTimeError
             /\ last.asks = <<>>

\* C15: to_int, to_float and to_float_unit return None, and raise nothing,
\* for each of the texts '_______', '.......' and 'N/A'.
C15_SentinelsDecode ==
    (/\ last.op = "decode"
     /\ last.attr \in {"to_int", "to_float", "to_float_unit"}
     /\ last.arg \in Sentinels) =>
        /\ last.exc = PyNone
        /\ last.value = PyNone

\* the date setter was given a date and dispatched its command
DateWritten ==
    /\ last.op = "set"
    /\ last.attr = "date"
    /\ last.arg.t = "date"
    /\ Len(last.asks) = 1

\* C16: the quoted argument of the ':SYSTEM:DATE' command that the date
\* setter dispatches for a date d is a text of the form "MM/DD/YYYY" that
\* to_date decodes to d.
C16_DateRoundTrip ==
    DateWritten =>
        /\ StartsWith(last.asks[1].cmd, ":SYSTEM:DATE \"")
        /\ Len(last.asks[1].cmd) = 25
        /\ to_date(SubSeq(last.asks[1].cmd, 14, 25)) = last.arg

\* 7 March 2024 was written as "03/07/2024"
C16_Witness ==
    /\ DateWritten
    /\ last.arg = PyDate(2024, 3, 7)
    /\ last.asks[1].calls = <<[fn |-> "write", data |-> ":SYSTEM:DATE \"03/07/2024\"\n"]>>

\* C17: every request line dispatched by the close of a batch is the
\* ';'-join of the commands appended to it: it starts with the ':' of its
\* first command, has no leading or trailing ';', and the lines together
\* hold as many commands as were appended.
C17_LinesJoined ==
    (last.op = "exit" /\ Len(last.before.funcs) > 0) =>
        /\ \A i \in DOMAIN last.asks :
              /\ StartsWith(last.asks[i].cmd, ":")
              /\ last.asks[i].cmd = Join(NonEmpty(Split(last.asks[i].cmd, ";")), ";")
        /\ CmdCount(last.before) = Len(last.before.funcs)

C18Dispatch(f, r) ==
    /\ ~Called(r) =>
          /\ r.post = r.pre
          /\ r.tend = r.t
          /\ IsExc(r.pre.err)
          /\ r.exc = r.pre.err
          /\ r.pre = [err |-> f.err, ts |-> f.ts]
    /\ (IsExc(f.err) /\ r.t >= f.ts + comm_error_retry_period) => Called(r)

\* C18: a dispatch refused during the cooldown leaves the stored (error,
\* timestamp) pair as it found it, which is the pair of the latest transport
\* error, and takes no time; so however many dispatches were refused, a
\* dispatch at or after T + comm_error_retry_period calls the transport.
C18_WindowNotExtended ==
    /\ \A i \in DOMAIN last.asks : C18Dispatch(last.failed, last.asks[i])
    /\ (Len(last.asks) > 0 /\ \A i \in DOMAIN last.asks : ~Called(last.asks[i])) =>
          /\ last_comm_error = last.stored
          /\ last_fail.ts = last.failed.ts
          /\ last_fail.err = last.failed.err

\* after two refused dispatches, the dispatch at T + comm_error_retry_period
\* called the transport
C18_Witness ==
    /\ IsExc(last.failed.err)
    /\ last.failed.blocked = MaxBlocked
    /\ Len(last.asks) > 0
    /\ last.asks[1].t = last.failed.ts + comm_error_retry_period
    /\ Called(last.asks[1])

\* C19: the close of a batch leaves no batch on the controller, whether the
\* scope ended normally, by an exception, or the close itself raised; and a
\* read made with no batch open is dispatched and returns the decoded reply.
C19_BatchDetached ==
    /\ last.op = "exit" => group = PyNone
    /\ (last.op = "get" /\ last.before = PyNone /\ LastFget # "None") =>
          /\ group = PyNone
          /\ Len(last.asks) = 1
          /\ last.exc = PyNone =>
                /\ IsStr(last.asks[1].reply)
                /\ LastFget # "n/a" =>
                      last.value = Decode(LastFget, last.asks[1].reply.s)

\* the close raised an error of its own and no batch is left
C19_Witness ==
    /\ last.op = "exit"
    /\ Len(last.before.funcs) > 0
    /\ last.exc = NackError
    /\ last.scope_exc = ScopeError
    /\ group = PyNone

\* the command prefix that addresses the entity of the latest operation
OwnPrefix == (IF last.kind = "channel" THEN ":INPUT " ELSE ":LOOP ") \o last.id \o ":"

\* C20: every command of a channel or loop operation is addressed to that
\* channel or loop, whether it is dispatched or appended to the batch.
C20_OwnEntity ==
    last.kind \in {"channel", "loop"} =>
        /\ \A i \in DOMAIN last.asks : StartsWith(last.asks[i].cmd, OwnPrefix)
        /\ (last.before # PyNone /\ group # last.before) =>
              StartsWith(Split(group.cmds[Len(group.cmds)], ";")
                           [Len(Split(group.cmds[Len(group.cmds)], ";"))], OwnPrefix)

====
